---------------------------- MODULE Spec2Model ----------------------------
(***************************************************************************)
(* Model of the magic-hour-bot repository: four near-duplicate chat bots.  *)
(*                                                                         *)
(*   "slack"        src/unnamed/part_000 lines 1-231   (Slack, registry    *)
(*                  channelMap, selector findEngagingMessage)              *)
(*   "discord"      src/index.js, src/unnamed/part_000 lines 233-453 and   *)
(*                  src/unnamed/part_002 (Discord, one channel from the    *)
(*                  environment, selector findMostEngagingMessage)         *)
(*   "discordMulti" src/unnamed/part_001 (Discord, registry                *)
(*                  guildChannelMap, slash command setmemechannel)         *)
(*                                                                         *)
(* A message is a record                                                   *)
(*   [isFromBot, reactions, hasText, text]                                 *)
(* reactions is the sequence of the reactions' counts, text the sequence   *)
(* of the text's characters; hasText = FALSE is Slack's message without a  *)
(* text field (msg.text undefined).  A selector returns the position of    *)
(* the chosen message in the scanned sequence, 0 standing for null.        *)
(*                                                                         *)
(* SelSpec applies a bot's selector to every bounded history.  Spec runs   *)
(* every bot: up to MaxEnrolls enrollment commands (the bots that keep a   *)
(* registry), one firing of the scheduled job and one mention, interleaved *)
(* at their awaits; the code between two awaits of a handler is one step,  *)
(* as on the single-threaded event loop.  MenSpec delivers one mention     *)
(* with any text of at most MaxText pieces.  CronSpec fires the schedule   *)
(* twice, the second firing free to come while the first run is suspended. *)
(* TextSpec fires the schedule once over messages whose text has up to 60  *)
(* characters.  PollSpec is one call of the generateMeme of part_002,      *)
(* which creates a job and polls its status; PollLive adds that every SDK  *)
(* call settles and every timer fires.                                     *)
(***************************************************************************)
EXTENDS Integers, Sequences, FiniteSets, TLC

VARIABLES
  env,         \* process.env: the value of CHANNEL_ID
  variant,     \* which of the bots runs
  messages,    \* the history handed to a selector
  selDone,     \* the selector has returned
  top,         \* what it returned (a position, 0 for null)
  channelMap,  \* the registry, a JavaScript Map: entries in insertion order
  enr,         \* the enrollment handlers
  cyc,         \* the runs of the scheduled job
  men,         \* the mention handler
  job          \* a call of the generateMeme that polls (part_002)

selVars == <<messages, selDone, top>>
sysVars == <<channelMap, enr, cyc, men>>
vars == <<job, env, variant, messages, selDone, top, channelMap, enr, cyc, men>>

\* ------------------------------------------------------------- bounds
\* longest message history handed to a selector
MaxMsgs == 2
\* largest total of the reaction counts of one message
MaxReactTotal == 2

\* ------------------------------------------------------------- inputs
Variants == {"slack", "discord", "discordMulti"}

\* texts of 0, 10 and 12 characters: one reaction weighs as much as 10
Text10 == [i \in 1..10 |-> "x"]
Text12 == [i \in 1..12 |-> "y"]
Texts == {<< >>, Text10, Text12}

\* sequences of positive counts whose sum is at most n
RECURSIVE CountLists(_)
CountLists(n) ==
  {<< >>} \cup UNION {{<<k>> \o r : r \in CountLists(n - k)} : k \in 1..n}

Messages(v) ==
  {[isFromBot |-> b, reactions |-> r, hasText |-> TRUE, text |-> t] :
      b \in BOOLEAN, r \in CountLists(MaxReactTotal), t \in Texts}
  \cup (IF v = "slack"
        THEN {[isFromBot |-> b, reactions |-> r, hasText |-> FALSE, text |-> << >>] :
                b \in BOOLEAN, r \in CountLists(MaxReactTotal)}
        ELSE {})

Histories(v) == UNION {[1..n -> Messages(v)] : n \in 0..MaxMsgs}

\* ------------------------------------------------- the Slack selector
\* msg.reactions?.reduce((s, r) => s + (r.count || 0), 0) || 0
RECURSIVE SumCounts(_)
SumCounts(rs) == IF rs = << >> THEN 0 ELSE Head(rs) + SumCounts(Tail(rs))

\* a reduce that counts the reactions instead of adding their counts
reactionScore_kinds(msg) == Len(msg.reactions)

reactionScore(msg) == SumCounts(msg.reactions)

\* (msg.text?.length || 0) / 10, in tenths
lengthScore10(msg) == IF msg.hasText THEN Len(msg.text) ELSE 0

\* score = reactionScore + lengthScore, in tenths (the JavaScript sum is a
\* double; for the counts and lengths used here it orders as the integers do)
score10(msg) == 10 * reactionScore(msg) + lengthScore10(msg)

\* the loop of findEngagingMessage replacing the running maximum on ties too
RECURSIVE findEngagingScan_geq(_, _, _, _)
findEngagingScan_geq(msgs, i, t, maxScore) ==
  IF i > Len(msgs) THEN t
  ELSE IF score10(msgs[i]) >= maxScore
       THEN findEngagingScan_geq(msgs, i + 1, i, score10(msgs[i]))
       ELSE findEngagingScan_geq(msgs, i + 1, t, maxScore)

\* the for loop of findEngagingMessage from position i on, with the running
\* top (a position, 0 for null) and maxScore (in tenths)
RECURSIVE findEngagingScan(_, _, _, _)
findEngagingScan(msgs, i, t, maxScore) ==
  IF i > Len(msgs) THEN t
  ELSE IF score10(msgs[i]) > maxScore
       THEN findEngagingScan(msgs, i + 1, i, score10(msgs[i]))
       ELSE findEngagingScan(msgs, i + 1, t, maxScore)

\* let top = null; let maxScore = 0; for (...) {...}; return top
findEngagingMessage(msgs) == findEngagingScan(msgs, 1, 0, 0)

\* ----------------------------------------------- the Discord selector
\* message.reactions.cache.forEach(reaction => totalReactions += reaction.count)
totalReactions(msg) == SumCounts(msg.reactions)

\* the loop of findMostEngagingMessage with the comparison flipped: nothing is below -1, so the
\* fallback answers
RECURSIVE mostEngagingScan_lt(_, _, _, _)
mostEngagingScan_lt(msgs, i, mostEngaging, maxReactions) ==
  IF i > Len(msgs) THEN mostEngaging
  ELSE IF msgs[i].isFromBot
       THEN mostEngagingScan_lt(msgs, i + 1, mostEngaging, maxReactions)
       ELSE IF totalReactions(msgs[i]) < maxReactions
            THEN mostEngagingScan_lt(msgs, i + 1, i, totalReactions(msgs[i]))
            ELSE mostEngagingScan_lt(msgs, i + 1, mostEngaging, maxReactions)

\* the loop of findMostEngagingMessage replacing the running maximum on ties too
RECURSIVE mostEngagingScan_geq(_, _, _, _)
mostEngagingScan_geq(msgs, i, mostEngaging, maxReactions) ==
  IF i > Len(msgs) THEN mostEngaging
  ELSE IF msgs[i].isFromBot
       THEN mostEngagingScan_geq(msgs, i + 1, mostEngaging, maxReactions)
       ELSE IF totalReactions(msgs[i]) >= maxReactions
            THEN mostEngagingScan_geq(msgs, i + 1, i, totalReactions(msgs[i]))
            ELSE mostEngagingScan_geq(msgs, i + 1, mostEngaging, maxReactions)

\* the for loop of findMostEngagingMessage from position i on
RECURSIVE mostEngagingScan(_, _, _, _)
mostEngagingScan(msgs, i, mostEngaging, maxReactions) ==
  IF i > Len(msgs) THEN mostEngaging
  ELSE IF msgs[i].isFromBot
       THEN mostEngagingScan(msgs, i + 1, mostEngaging, maxReactions)
       ELSE IF totalReactions(msgs[i]) > maxReactions
            THEN mostEngagingScan(msgs, i + 1, i, totalReactions(msgs[i]))
            ELSE mostEngagingScan(msgs, i + 1, mostEngaging, maxReactions)

\* messages.find(m => !m.author.bot) || null
findNonBot(msgs) ==
  IF \E i \in 1..Len(msgs) : ~msgs[i].isFromBot
  THEN CHOOSE i \in 1..Len(msgs) :
         /\ ~msgs[i].isFromBot
         /\ \A j \in 1..(i - 1) : msgs[j].isFromBot
  ELSE 0

\* src/index.js (and the copies in part_000 and part_002):
\* mostEngaging = null, maxReactions = -1, the loop, then the fallback
\* if (!mostEngaging && messages.size > 0) return messages.find(...) || null
findMostEngagingMessage(msgs) ==
  LET mostEngaging == mostEngagingScan(msgs, 1, 0, -1)
  IN  IF mostEngaging = 0 /\ Len(msgs) > 0 THEN findNonBot(msgs) ELSE mostEngaging

\* src/unnamed/part_001:
\* if (!mostEngaging) mostEngaging = messages.find(...) || null
findMostEngagingMessageMulti(msgs) ==
  LET mostEngaging == mostEngagingScan(msgs, 1, 0, -1)
  IN  IF mostEngaging = 0 THEN findNonBot(msgs) ELSE mostEngaging

\* the selector of each bot
selectMostEngaging(v, msgs) ==
  CASE v = "slack" -> findEngagingMessage(msgs)
    [] v = "discord" -> findMostEngagingMessage(msgs)
    [] v = "discordMulti" -> findMostEngagingMessageMulti(msgs)


\* ------------------------------------------------- the registry (Map)
Teams == {"T1", "T2"}
Channels == {"C1", "C2"}

\* enrollment commands handled in one run
MaxEnrolls == 2

\* position of key k among the entries of the Map, 0 when absent
MapIndex(cm, k) ==
  IF \E i \in 1..Len(cm) : cm[i].key = k
  THEN CHOOSE i \in 1..Len(cm) : cm[i].key = k
  ELSE 0

\* channelMap.get(teamId) || []
getOrEmpty(cm, k) == IF MapIndex(cm, k) = 0 THEN << >> ELSE cm[MapIndex(cm, k)].val

\* Map.prototype.set: an existing key keeps its place, a new one goes last
MapSet(cm, k, v) ==
  IF MapIndex(cm, k) = 0
  THEN Append(cm, [key |-> k, val |-> v])
  ELSE [cm EXCEPT ![MapIndex(cm, k)].val = v]

\* an includes that never finds the element
includes_never(arr, x) == FALSE

\* Array.prototype.includes
includes(arr, x) == \E i \in 1..Len(arr) : arr[i] = x

\* an unshift in place of the push: x becomes the first element
push_unshift(arr, x) == <<x>> \o arr

\* an assignment in place of the push: the array becomes [x]
push_replace(arr, x) == <<x>>

\* Array.prototype.push
push(arr, x) == Append(arr, x)

\* Slack, "setchannel": existing = get || []; if (!includes) push; set
setchannel(cm, teamId, channel) ==
  LET existing == getOrEmpty(cm, teamId)
      pushed == IF ~includes(existing, channel) THEN push(existing, channel) ELSE existing
  IN  MapSet(cm, teamId, pushed)

\* a handler that keeps only the channel given last for a guild
setmemechannel_latest(cm, guildId, channelId) == MapSet(cm, guildId, <<channelId>>)

\* Discord, "/setmemechannel": channels = get || []; if (!includes) { push; set }
setmemechannel(cm, guildId, channelId) ==
  LET channels == getOrEmpty(cm, guildId)
  IN  IF ~includes(channels, channelId)
      THEN MapSet(cm, guildId, push(channels, channelId))
      ELSE cm

\* channel is in the list the Map holds for team
Enrolled(cm, team, channel) ==
  \E i \in 1..Len(cm) :
    cm[i].key = team /\ \E j \in 1..Len(cm[i].val) : cm[i].val[j] = channel

\* the destinations in the order the nested for loops meet them
RECURSIVE Dests(_)
Dests(cm) ==
  IF cm = << >> THEN << >>
  ELSE [i \in 1..Len(Head(cm).val) |-> <<Head(cm).key, Head(cm).val[i]>>] \o Dests(Tail(cm))

\* ------------------------------------------------ enrollment handlers
Handlers == 1..MaxEnrolls

\* reply: what the handler answers, "registered" (Slack), "added" or
\* "only admins" (Discord)
EnrIdle ==
  [pc |-> "idle", team |-> "", channel |-> "", admin |-> FALSE, dup |-> FALSE,
   reply |-> ""]

\* handlers are taken in order
NextHandler(h) ==
  /\ enr[h].pc = "idle"
  /\ IF h = 1 THEN TRUE ELSE enr[h - 1].pc # "idle"

\* app.message(/^setchannel/i, ...) up to its await say(...)
SetChannel(h, team, channel) ==
  /\ variant = "slack"
  /\ NextHandler(h)
  /\ channelMap' = setchannel(channelMap, team, channel)
  /\ enr' = [enr EXCEPT ![h] =
               [pc |-> "reply", team |-> team, channel |-> channel, admin |-> TRUE,
                dup |-> Enrolled(channelMap, team, channel), reply |-> "registered"]]
  /\ UNCHANGED <<job, env, variant, messages, selDone, top, cyc, men>>

\* a handler that does not look at the member's permissions
InteractionCreate_open(h, guildId, channel, admin) ==
  /\ variant = "discordMulti"
  /\ NextHandler(h)
  /\ channelMap' = setmemechannel(channelMap, guildId, channel)
  /\ enr' = [enr EXCEPT ![h] =
               [pc |-> "reply", team |-> guildId, channel |-> channel, admin |-> admin,
                dup |-> Enrolled(channelMap, guildId, channel), reply |-> "added"]]
  /\ UNCHANGED <<job, env, variant, messages, selDone, top, cyc, men>>

\* discord.on("interactionCreate", ...) for /setmemechannel up to its
\* reply: "Only admins can set meme channels." for a member without
\* Administrator, else the update and "Added ... for auto memes!"
InteractionCreate(h, guildId, channel, admin) ==
  /\ variant = "discordMulti"
  /\ NextHandler(h)
  /\ channelMap' = IF admin THEN setmemechannel(channelMap, guildId, channel) ELSE channelMap
  /\ enr' = [enr EXCEPT ![h] =
               [pc |-> "reply", team |-> guildId, channel |-> channel, admin |-> admin,
                dup |-> Enrolled(channelMap, guildId, channel),
                reply |-> IF admin THEN "added" ELSE "only admins"]]
  /\ UNCHANGED <<job, env, variant, messages, selDone, top, cyc, men>>

\* await say(...) / interaction.reply(...) settles (resolved or rejected):
\* the handler ends
EnrollReplied(h) ==
  /\ enr[h].pc = "reply"
  /\ enr' = [enr EXCEPT ![h].pc = "done"]
  /\ UNCHANGED <<job, env, variant, messages, selDone, top, channelMap, cyc, men>>

\* ------------------------------------------------- generation service
Null == "null"
truthy(u) == u \notin {Null, ""}

\* what mh.v1.aiMemeGenerator.generate(..., {waitForCompletion: true}) gives:
\* a rejection, or a response whose fields status and downloads the bots
\* read one by one
SdkResults ==
  {[threw |-> TRUE, status |-> "", downloads |-> << >>],
   [threw |-> FALSE, status |-> "complete", downloads |-> <<"u1">>],
   [threw |-> FALSE, status |-> "complete", downloads |-> << >>],
   [threw |-> FALSE, status |-> "error", downloads |-> << >>],
   [threw |-> FALSE, status |-> "error", downloads |-> <<"u1">>]}

\* the response the interface promises for a meme: status complete and a
\* non-empty result URL
Complete(r) ==
  ~r.threw /\ r.status = "complete" /\ Len(r.downloads) > 0 /\ truthy(r.downloads[1])

\* Slack: result?.downloads?.[0]?.url || ... || null; no URL throws into
\* the catch, which returns null
generateMeme(r) ==
  IF r.threw THEN Null
  ELSE IF Len(r.downloads) > 0 /\ truthy(r.downloads[1]) THEN r.downloads[1]
  ELSE Null

\* Discord: status === "complete" && downloads?.length > 0 ? downloads[0].url : null
generateContent(r) ==
  IF r.threw THEN Null
  ELSE IF r.status = "complete" /\ Len(r.downloads) > 0 THEN r.downloads[1]
  ELSE Null

\* ------------------------------ generation with polling (part_002)
\* const maxAttempts = 20
maxAttempts == 20

\* what mh.v1.aiMemeGenerator.create and .get give: a rejection, or a job
\* with its status and its downloads
JobResults ==
  {[threw |-> TRUE, status |-> "", downloads |-> << >>]}
  \cup {[threw |-> FALSE, status |-> st, downloads |-> << >>] :
          st \in {"queued", "complete", "error"}}
  \cup {[threw |-> FALSE, status |-> "complete", downloads |-> d] :
          d \in {<<"u1">>, <<"u2", "u1">>}}

\* polls counts the calls of the job-status endpoint
JobIdle == [pc |-> "idle", status |-> "", attempts |-> 0, polls |-> 0, result |-> Null]

\* return ...
Return(j, url) == [j EXCEPT !.pc = "returned", !.result = url]

\* a loop condition that allows one attempt more
whileCondition_late(status, attempts) ==
  status # "complete" /\ status # "error" /\ attempts <= maxAttempts

\* while (status !== "complete" && status !== "error" && attempts < maxAttempts)
whileCondition(status, attempts) ==
  status # "complete" /\ status # "error" /\ attempts < maxAttempts

\* the top of the while loop: attempts++ and the await of get, or the end
\* of the loop and return null
Loop(j) ==
  IF whileCondition(j.status, j.attempts)
  THEN [j EXCEPT !.pc = "get", !.attempts = @ + 1, !.polls = @ + 1]
  ELSE Return(j, Null)

\* generateMeme(prompt) is called: up to await create(...)
JobSubmit ==
  /\ job.pc = "idle"
  /\ job' = [job EXCEPT !.pc = "create"]
  /\ UNCHANGED <<env, variant, messages, selDone, top, channelMap, enr, cyc, men>>

\* create settles: the catch returns null, or status = job.status,
\* attempts = 0 and the loop is entered
JobCreated(r) ==
  /\ job.pc = "create"
  /\ job' = IF r.threw THEN Return(job, Null)
            ELSE Loop([job EXCEPT !.status = r.status, !.attempts = 0])
  /\ UNCHANGED <<env, variant, messages, selDone, top, channelMap, enr, cyc, men>>

\* get settles: the catch returns null, or status = current.status; a
\* complete job with a download is returned, else the 3 seconds' wait
JobPolled(r) ==
  /\ job.pc = "get"
  /\ job' = IF r.threw THEN Return(job, Null)
            ELSE IF r.status = "complete" /\ Len(r.downloads) > 0
                 THEN Return([job EXCEPT !.status = r.status], r.downloads[1])
                 ELSE [job EXCEPT !.pc = "sleep", !.status = r.status]
  /\ UNCHANGED <<env, variant, messages, selDone, top, channelMap, enr, cyc, men>>

\* the 3 seconds are over: back to the top of the loop
JobSlept ==
  /\ job.pc = "sleep"
  /\ job' = Loop(job)
  /\ UNCHANGED <<env, variant, messages, selDone, top, channelMap, enr, cyc, men>>

\* ------------------------------------------------- the scheduled job
\* the runs of the scheduled job: one firing of the cron schedule
Cycles == {1}

userPost == [isFromBot |-> FALSE, reactions |-> <<1>>, hasText |-> TRUE, text |-> Text12]
quietPost == [isFromBot |-> FALSE, reactions |-> << >>, hasText |-> TRUE, text |-> << >>]
botPost == [isFromBot |-> TRUE, reactions |-> <<2>>, hasText |-> TRUE, text |-> Text10]
filePost == [isFromBot |-> FALSE, reactions |-> <<1>>, hasText |-> FALSE, text |-> << >>]

\* the histories a fetch may return
FetchedHistories ==
  {<< >>, <<quietPost>>, <<botPost>>, <<userPost>>}
  \cup (IF variant = "slack" THEN {<<filePost>>} ELSE {})

\* a text of 60 characters, and the messages that carry its first n
Letters == <<"a", "b", "c", "d", "e", "f", "g">>
Text60 == [i \in 1..60 |-> Letters[(i % 7) + 1]]
longPost(n) ==
  [isFromBot |-> FALSE, reactions |-> <<1>>, hasText |-> TRUE, text |-> SubSeq(Text60, 1, n)]
LongHistories == {<<longPost(n)>> : n \in {0, 1, 2, 49, 50, 51, 52, 60}}

\* content.substring(0, 50)
shown == 50
substring0(content, n) == SubSeq(content, 1, IF Len(content) < n THEN Len(content) ELSE n)

\* const content = engaging.text / engagingMessage.content, as a template
\* literal prints it
contentOf(msg) == IF msg.hasText THEN msg.text ELSE <<"undefined">>

\* a prompt made of the text the post shows
cronPrompt_shown(v, msg) ==
  <<"Make a funny meme based on: \"">> \o substring0(contentOf(msg), shown) \o <<"\"">>

\* the prompt handed to generateMeme / generateContent
cronPrompt(v, msg) ==
  IF v = "slack"
  THEN <<"Make a funny meme based on: \"">> \o contentOf(msg) \o <<"\"">>
  ELSE IF v = "discordMulti"
  THEN <<"Create a funny meme based on this message: \"">> \o contentOf(msg) \o <<"\"">>
  ELSE <<"Create a humorous meme based on this recent server chat: \"">>
       \o contentOf(msg) \o <<"\".">>

\* the fallback of the one-channel bot
genericPrompt ==
  <<"something funny for a discord server that is full of coders and gamers">>

\* the text of the post
cronPost(v, msg) ==
  IF v = "slack"
  THEN <<"Auto Meme Time! <@author> (Based on: \"">>
       \o substring0(msg.text, shown) \o <<"...\")">>
  ELSE IF v = "discordMulti"
  THEN <<"Auto Meme Time! This one's for you, author! (Based on: \"">>
       \o substring0(msg.text, shown) \o <<"...\")">>
  ELSE <<"Auto Content Time! This one's for you, author! (Based on your engaging chat: *">>
       \o substring0(msg.text, shown) \o <<"...*)">>

genericPost == <<"Auto Content Time! Here's a generic joke for the server.">>

\* gens and posts count the generation jobs submitted and the posts made
\* for the destination at hand; prompt is the prompt submitted, text the
\* text of the post requested; reported: the run logged that CHANNEL_ID
\* is not defined
CycIdle ==
  [pc |-> "idle", ti |-> 0, ci |-> 0, channel |-> "", engaging |-> << >>,
   memeUrl |-> Null, fetched |-> << >>, errAt |-> 0, atStart |-> << >>,
   gens |-> 0, posts |-> 0, reported |-> FALSE, prompt |-> << >>, text |-> << >>]

\* the two for...of iterators, (ti, ci) the entry and the element to try
\* next: the next destination's body up to its first await, or the end of
\* the job.  Both iterators read the live Map and the live array.
RECURSIVE Advance(_, _, _, _)
Advance(cm, cy, ti, ci) ==
  IF ti > Len(cm)
  THEN [cy EXCEPT !.pc = "done", !.ti = ti, !.ci = ci, !.channel = "",
                  !.engaging = << >>, !.memeUrl = Null, !.gens = 0, !.posts = 0,
                  !.prompt = << >>, !.text = << >>]
  ELSE IF ci > Len(cm[ti].val)
       THEN Advance(cm, cy, ti + 1, 1)
       ELSE [cy EXCEPT !.pc = IF variant = "slack" THEN "fetch" ELSE "channel",
                       !.ti = ti, !.ci = ci, !.channel = cm[ti].val[ci],
                       !.engaging = << >>, !.memeUrl = Null,
                       !.gens = 0, !.posts = 0,
                       !.prompt = << >>, !.text = << >>,
                       !.fetched = Append(@, <<cm[ti].key, cm[ti].val[ci]>>)]

\* the body of the inner loop ended: on to the next element
Continue(cy) == Advance(channelMap, cy, cy.ti, cy.ci + 1)

\* note the first destination of this run at which a step failed
Failed(cy) == [cy EXCEPT !.errAt = IF @ = 0 THEN Len(cy.fetched) ELSE @]

\* a catch that ends the job instead of going on with the loop
Caught_abort(cy) == [Failed(cy) EXCEPT !.pc = "done"]

\* a catch that runs the body again for the same destination
Caught_retry(cy) == Advance(channelMap, Failed(cy), cy.ti, cy.ci)

\* catch (err) { console.error(...) } inside the inner loop
Caught(cy) == Continue(Failed(cy))

\* cron.schedule("0 */2 * * *", async () => { ... }) fires
CronFire(c) ==
  /\ variant # "discord"
  /\ cyc[c].pc = "idle"
  /\ IF c = 1 THEN TRUE ELSE cyc[c - 1].pc # "idle"
  /\ cyc' = [cyc EXCEPT ![c] =
               Advance(channelMap, [cyc[c] EXCEPT !.atStart = Dests(channelMap)], 1, 1)]
  /\ UNCHANGED <<job, env, variant, messages, selDone, top, channelMap, enr, men>>

\* Discord: await discord.channels.fetch(channelId) settles
ChannelFetched(c, ok) ==
  /\ variant # "discord"
  /\ cyc[c].pc = "channel"
  /\ cyc' = [cyc EXCEPT ![c] = IF ok THEN [cyc[c] EXCEPT !.pc = "fetch"] ELSE Caught(cyc[c])]
  /\ UNCHANGED <<job, env, variant, messages, selDone, top, channelMap, enr, men>>

\* the selected message, or the loop going on when there is none
Selected(cy, hist, e) ==
  IF e = 0 THEN Continue(cy)
  ELSE [cy EXCEPT !.pc = "generate", !.engaging = <<hist[e]>>, !.gens = @ + 1,
                  !.prompt = cronPrompt(variant, hist[e])]

\* Slack: await app.client.conversations.history(...) throws
HistoryFailed(c) ==
  /\ variant # "discord"
  /\ cyc[c].pc = "fetch"
  /\ cyc' = [cyc EXCEPT ![c] =
               IF variant = "slack"
               THEN Caught(cyc[c])
               \* Discord: findMostEngagingMessage catches and returns null
               ELSE Continue(Failed(cyc[c]))]
  /\ UNCHANGED <<job, env, variant, messages, selDone, top, channelMap, enr, men>>

\* the history arrives; the selector runs; generation is requested
HistoryFetched(c, hist) ==
  /\ variant # "discord"
  /\ cyc[c].pc = "fetch"
  /\ cyc' = [cyc EXCEPT ![c] = Selected(cyc[c], hist, selectMostEngaging(variant, hist))]
  /\ UNCHANGED <<job, env, variant, messages, selDone, top, channelMap, enr, men>>

\* generateMeme / generateContent returns; the post is requested
Generated(c, r) ==
  /\ variant # "discord"
  /\ cyc[c].pc = "generate"
  /\ LET cy == cyc[c]
         memeUrl == IF variant = "slack" THEN generateMeme(r) ELSE generateContent(r)
     IN  cyc' = [cyc EXCEPT ![c] =
                   IF ~truthy(memeUrl) THEN Continue(Failed(cy))
                   \* Slack: content.substring(0, 50) of an undefined text throws
                   ELSE IF ~cy.engaging[1].hasText THEN Caught(cy)
                   ELSE [cy EXCEPT !.pc = "post", !.memeUrl = memeUrl, !.posts = @ + 1,
                                   !.text = cronPost(variant, cy.engaging[1])]]
  /\ UNCHANGED <<job, env, variant, messages, selDone, top, channelMap, enr, men>>

\* await chat.postMessage(...) / channel.send(...) settles
Posted(c, ok) ==
  /\ variant # "discord"
  /\ cyc[c].pc = "post"
  /\ cyc' = [cyc EXCEPT ![c] = IF ok THEN Continue(cyc[c]) ELSE Caught(cyc[c])]
  /\ UNCHANGED <<job, env, variant, messages, selDone, top, channelMap, enr, men>>

\* ------------------------------ the scheduled job of the one-channel bot
EnvValues == {[CHANNEL_ID |-> "C1"], [CHANNEL_ID |-> Null]}

\* the callback returns: the end of its try block, or its catch
AutoEnd(cy) ==
  [cy EXCEPT !.pc = "done", !.engaging = << >>, !.memeUrl = Null,
             !.prompt = << >>, !.text = << >>]

\* catch (err) { console.error("Auto content error:", err) }
AutoCaught(cy) == AutoEnd(Failed(cy))

\* cron.schedule("0 */2 * * *", async () => { ... }) fires: without
\* CHANNEL_ID the callback logs the error and returns, with it the callback
\* runs up to await discord.channels.fetch(channelId)
AutoFire(c) ==
  /\ variant = "discord"
  /\ cyc[c].pc = "idle"
  /\ IF c = 1 THEN TRUE ELSE cyc[c - 1].pc # "idle"
  /\ cyc' = [cyc EXCEPT ![c] =
               IF ~truthy(env.CHANNEL_ID)
               THEN [cyc[c] EXCEPT !.pc = "done", !.reported = TRUE]
               ELSE [cyc[c] EXCEPT !.pc = "channel", !.channel = env.CHANNEL_ID,
                                   !.atStart = << <<"", env.CHANNEL_ID>> >>,
                                   !.fetched = << <<"", env.CHANNEL_ID>> >>]]
  /\ UNCHANGED <<job, env, variant, messages, selDone, top, channelMap, enr, men>>

\* await discord.channels.fetch(channelId) settles
AutoChannelFetched(c, ok) ==
  /\ variant = "discord"
  /\ cyc[c].pc = "channel"
  /\ cyc' = [cyc EXCEPT ![c] =
               IF ok THEN [cyc[c] EXCEPT !.pc = "fetch"] ELSE AutoCaught(cyc[c])]
  /\ UNCHANGED <<job, env, variant, messages, selDone, top, channelMap, enr, men>>

\* a job that returns when no message was selected
AutoSelected_skip(cy, hist, e) ==
  IF e = 0 THEN AutoEnd(cy)
  ELSE [cy EXCEPT !.pc = "generate", !.gens = @ + 1, !.engaging = <<hist[e]>>,
                  !.prompt = cronPrompt(variant, hist[e])]

\* if (engagingMessage) generateContent(contentPrompt)
\* else generateContent("something funny for a discord server ...")
AutoSelected(cy, hist, e) ==
  [cy EXCEPT !.pc = "generate", !.gens = @ + 1,
             !.engaging = IF e = 0 THEN << >> ELSE <<hist[e]>>,
             !.prompt = IF e = 0 THEN genericPrompt ELSE cronPrompt(variant, hist[e])]

\* channel.messages.fetch throws inside findMostEngagingMessage, whose
\* catch returns null
AutoMessagesFailed(c) ==
  /\ variant = "discord"
  /\ cyc[c].pc = "fetch"
  /\ cyc' = [cyc EXCEPT ![c] = AutoSelected(Failed(cyc[c]), << >>, 0)]
  /\ UNCHANGED <<job, env, variant, messages, selDone, top, channelMap, enr, men>>

\* the messages arrive; findMostEngagingMessage returns; generation is
\* requested
AutoMessagesFetched(c, hist) ==
  /\ variant = "discord"
  /\ cyc[c].pc = "fetch"
  /\ cyc' = [cyc EXCEPT ![c] = AutoSelected(cyc[c], hist, findMostEngagingMessage(hist))]
  /\ UNCHANGED <<job, env, variant, messages, selDone, top, channelMap, enr, men>>

\* generateContent returns; if (memeUrl) the send is requested
AutoGenerated(c, r) ==
  /\ variant = "discord"
  /\ cyc[c].pc = "generate"
  /\ LET memeUrl == generateContent(r)
     IN  cyc' = [cyc EXCEPT ![c] =
                   IF ~truthy(memeUrl) THEN AutoEnd(Failed(cyc[c]))
                   ELSE [cyc[c] EXCEPT !.pc = "post", !.memeUrl = memeUrl, !.posts = @ + 1,
                                       !.text = IF cyc[c].engaging = << >> THEN genericPost
                                                ELSE cronPost(variant, cyc[c].engaging[1])]]
  /\ UNCHANGED <<job, env, variant, messages, selDone, top, channelMap, enr, men>>

\* await channel.send(...) settles
AutoSent(c, ok) ==
  /\ variant = "discord"
  /\ cyc[c].pc = "post"
  /\ cyc' = [cyc EXCEPT ![c] = IF ok THEN AutoEnd(cyc[c]) ELSE AutoCaught(cyc[c])]
  /\ UNCHANGED <<job, env, variant, messages, selDone, top, channelMap, enr, men>>

\* ------------------------------------------------ the mention handler
\* longest text of a mention, in pieces
MaxText == 5

Sp == " "

\* BOT_COMMAND_PREFIX = "create meme": two words and the space between
BOT_COMMAND_PREFIX == <<"create", Sp, "meme">>

\* what a text is written with.  Slack, event.text: the raw mention <@U1>,
\* a space, another character.  Discord, message.cleanContent: the resolved
\* mention @bot, a space, the command words "create meme", another
\* character.  All of it is lower case: toLowerCase changes none of it.
Pieces(v) ==
  IF v = "slack" THEN {"<@U1>", Sp, "w"} ELSE {"@bot", Sp, "create meme", "w"}

RawTexts(v) == UNION {[1..n -> Pieces(v)] : n \in 0..MaxText}

\* the text as the string functions see it: the command words are two
\* words
RECURSIVE Spell(_)
Spell(t) ==
  IF t = << >> THEN << >>
  ELSE (IF Head(t) = "create meme" THEN BOT_COMMAND_PREFIX ELSE <<Head(t)>>)
       \o Spell(Tail(t))

\* the events delivered: Slack's app_mention always mentions the app
Events(v) ==
  {[bot |-> b, mentioned |-> m, text |-> Spell(t)] :
     b \in BOOLEAN, m \in (IF v = "slack" THEN {TRUE} ELSE BOOLEAN), t \in RawTexts(v)}

\* the two events the bots are run with when the other handlers run too:
\* a mention with nothing after it and a mention with a prompt
SomeEvents(v) ==
  IF v = "slack"
  THEN {[bot |-> FALSE, mentioned |-> TRUE, text |-> <<"<@U1>">>],
        [bot |-> FALSE, mentioned |-> TRUE, text |-> <<"<@U1>", Sp, "w">>]}
  ELSE {[bot |-> FALSE, mentioned |-> TRUE,
         text |-> <<"@bot", Sp>> \o BOT_COMMAND_PREFIX],
        [bot |-> FALSE, mentioned |-> TRUE,
         text |-> <<"@bot", Sp>> \o BOT_COMMAND_PREFIX \o <<Sp, "w">>]}

RECURSIVE trimStart(_)
trimStart(t) == IF t # << >> /\ Head(t) = Sp THEN trimStart(Tail(t)) ELSE t

RECURSIVE trimEnd(_)
trimEnd(t) ==
  IF t # << >> /\ t[Len(t)] = Sp THEN trimEnd(SubSeq(t, 1, Len(t) - 1)) ELSE t

\* String.prototype.trim
trim(t) == trimEnd(trimStart(t))

\* text.replace(/<@.*?>/g, "")
RECURSIVE replaceMentions(_)
replaceMentions(t) ==
  IF t = << >> THEN << >>
  ELSE (IF Head(t) = "<@U1>" THEN << >> ELSE <<Head(t)>>) \o replaceMentions(Tail(t))

\* String.prototype.split(/\s+/) from position i on: cur the word being
\* read, acc the words read
RECURSIVE splitScan(_, _, _, _)
splitScan(t, i, cur, acc) ==
  IF i > Len(t) THEN Append(acc, cur)
  ELSE IF t[i] = Sp
       THEN IF i > 1 /\ t[i - 1] = Sp
            THEN splitScan(t, i + 1, cur, acc)
            ELSE splitScan(t, i + 1, << >>, Append(acc, cur))
       ELSE splitScan(t, i + 1, Append(cur, t[i]), acc)

split(t) == splitScan(t, 1, << >>, << >>)

\* Array.prototype.join(" ")
RECURSIVE join(_)
join(ws) ==
  IF ws = << >> THEN << >>
  ELSE IF Len(ws) = 1 THEN ws[1]
  ELSE ws[1] \o <<Sp>> \o join(Tail(ws))

\* String.prototype.startsWith
startsWith(t, p) == Len(t) >= Len(p) /\ SubSeq(t, 1, Len(p)) = p

\* contentArray[0].startsWith("@")
startsWithAt(w) == w # << >> /\ w[1] = "@bot"

\* String.prototype.substring(n)
substring(t, n) == SubSeq(t, n + 1, Len(t))

\* Slack: const userPrompt = text.replace(/<@.*?>/g, "").trim()
userPrompt(text) == trim(replaceMentions(text))

\* a handler that leaves the mention in the content
cleanCommand_raw(text) == trim(join(split(trim(text))))

\* Discord: cleanContent.trim().split(/\s+/), shift of a first word that
\* starts with "@", join(" ").trim()
cleanCommand(text) ==
  LET contentArray == split(trim(text))
      shifted == IF Len(contentArray) > 0 /\ startsWithAt(contentArray[1])
                 THEN Tail(contentArray) ELSE contentArray
  IN  trim(join(shifted))

\* content.substring(BOT_COMMAND_PREFIX.length).trim()
commandPrompt(content) == trim(substring(content, Len(BOT_COMMAND_PREFIX)))

NoEvent == [bot |-> FALSE, mentioned |-> FALSE, text |-> << >>]

\* calls: the calls to the chat platform and to the generation service
\* the handler has made, in order
MenIdle ==
  [pc |-> "idle", event |-> NoEvent, prompt |-> << >>, memeUrl |-> Null, calls |-> << >>]

\* the handler makes a call and awaits it
Issue(m, call) == [m EXCEPT !.pc = call, !.calls = Append(@, call)]

\* app.event("app_mention") up to its first await: the rejection of an
\* empty prompt (say), or the "generating" message (chat.postMessage)
AppMention(m, e) ==
  LET prompt == userPrompt(e.text)
  IN  Issue([m EXCEPT !.event = e, !.prompt = prompt],
            IF prompt = << >> THEN "reject" ELSE "placeholder")

\* a handler that does not look at the author of the message
MessageCreate_bots(m, e) ==
  LET content == cleanCommand(e.text)
      prompt == commandPrompt(content)
      got == [m EXCEPT !.event = e]
  IN  IF ~e.mentioned THEN [got EXCEPT !.pc = "done"]
      ELSE IF ~startsWith(content, BOT_COMMAND_PREFIX) THEN [got EXCEPT !.pc = "done"]
      ELSE Issue([got EXCEPT !.prompt = prompt],
                 IF prompt = << >> THEN "reject" ELSE "placeholder")

\* discord.on("messageCreate") up to its first await, or to its return for
\* a bot's message, a message without the mention or without the command
MessageCreate(m, e) ==
  LET content == cleanCommand(e.text)
      prompt == commandPrompt(content)
      got == [m EXCEPT !.event = e]
  IN  IF e.bot \/ ~e.mentioned THEN [got EXCEPT !.pc = "done"]
      ELSE IF ~startsWith(content, BOT_COMMAND_PREFIX) THEN [got EXCEPT !.pc = "done"]
      ELSE Issue([got EXCEPT !.prompt = prompt],
                 IF prompt = << >> THEN "reject" ELSE "placeholder")

\* a mention is delivered to the handler
MentionStart(e) ==
  /\ men.pc = "idle"
  /\ men' = IF variant = "slack" THEN AppMention(men, e) ELSE MessageCreate(men, e)
  /\ UNCHANGED <<job, env, variant, messages, selDone, top, channelMap, enr, cyc>>

\* the chat calls the handler awaits: the rejection, the "generating"
\* message, its deletion (Slack), the message with the image, the update of
\* the "generating" message (Slack), the reply with the failure notice
\* (Discord)
ChatCalls == {"reject", "placeholder", "delete", "final", "update", "notice"}

\* the awaited chat call settles; a rejection leaves the handler, which has
\* no try/catch
MentionCallSettled(ok) ==
  /\ men.pc \in ChatCalls
  /\ men' = IF ~ok THEN [men EXCEPT !.pc = "failed"]
            ELSE CASE men.pc = "placeholder" -> Issue(men, "generate")
                   [] men.pc = "delete" -> Issue(men, "final")
                   [] OTHER -> [men EXCEPT !.pc = "done"]
  /\ UNCHANGED <<job, env, variant, messages, selDone, top, channelMap, enr, cyc>>

\* a handler that posts the image and leaves the "generating" message
afterGeneration_keep(v, memeUrl) ==
  IF truthy(memeUrl) THEN "final"
  ELSE (IF v = "slack" THEN "update" ELSE "notice")

\* if (memeUrl) ... else ...: the call made next.  Slack: chat.delete of
\* the "generating" message, or chat.update of it; Discord: a new reply
\* with the image, or a new reply with the failure notice
afterGeneration(v, memeUrl) ==
  IF truthy(memeUrl)
  THEN (IF v = "slack" THEN "delete" ELSE "final")
  ELSE (IF v = "slack" THEN "update" ELSE "notice")

\* generateMeme / generateContent returns to the mention handler
MentionGenerated(r) ==
  /\ men.pc = "generate"
  /\ LET memeUrl == IF variant = "slack" THEN generateMeme(r) ELSE generateContent(r)
     IN  men' = Issue([men EXCEPT !.memeUrl = memeUrl], afterGeneration(variant, memeUrl))
  /\ UNCHANGED <<job, env, variant, messages, selDone, top, channelMap, enr, cyc>>

\* ------------------------------------------- specification: the bots
Init ==
  /\ variant \in Variants
  /\ env \in (IF variant = "discord" THEN EnvValues ELSE {[CHANNEL_ID |-> Null]})
  /\ messages = << >>
  /\ selDone = FALSE
  /\ top = 0
  /\ channelMap = << >>
  /\ enr = [h \in Handlers |-> EnrIdle]
  /\ cyc = [c \in Cycles |-> CycIdle]
  /\ men = MenIdle
  /\ job = JobIdle

Next ==
  \/ \E h \in Handlers, t \in Teams, ch \in Channels : SetChannel(h, t, ch)
  \/ \E h \in Handlers, t \in Teams, ch \in Channels, a \in BOOLEAN :
       InteractionCreate(h, t, ch, a)
  \/ \E h \in Handlers : EnrollReplied(h)
  \/ \E c \in Cycles : CronFire(c)
  \/ \E c \in Cycles, ok \in BOOLEAN : ChannelFetched(c, ok)
  \/ \E c \in Cycles : HistoryFailed(c)
  \/ \E c \in Cycles, hist \in FetchedHistories : HistoryFetched(c, hist)
  \/ \E c \in Cycles, r \in SdkResults : Generated(c, r)
  \/ \E c \in Cycles, ok \in BOOLEAN : Posted(c, ok)
  \/ \E c \in Cycles : AutoFire(c)
  \/ \E c \in Cycles, ok \in BOOLEAN : AutoChannelFetched(c, ok)
  \/ \E c \in Cycles : AutoMessagesFailed(c)
  \/ \E c \in Cycles, hist \in FetchedHistories : AutoMessagesFetched(c, hist)
  \/ \E c \in Cycles, r \in SdkResults : AutoGenerated(c, r)
  \/ \E c \in Cycles, ok \in BOOLEAN : AutoSent(c, ok)
  \/ \E e \in SomeEvents(variant) : MentionStart(e)
  \/ \E ok \in BOOLEAN : MentionCallSettled(ok)
  \/ \E r \in SdkResults : MentionGenerated(r)

Spec == Init /\ [][Next]_vars

\* ------------------------------------------ specification: selectors
SelInit ==
  /\ variant \in Variants
  /\ env = [CHANNEL_ID |-> Null]
  /\ messages \in Histories(variant)
  /\ selDone = FALSE
  /\ top = 0
  /\ channelMap = << >>
  /\ enr = [h \in Handlers |-> EnrIdle]
  /\ cyc = [c \in Cycles |-> CycIdle]
  /\ men = MenIdle
  /\ job = JobIdle

Select ==
  /\ ~selDone
  /\ top' = selectMostEngaging(variant, messages)
  /\ selDone' = TRUE
  /\ UNCHANGED <<job, env, variant, messages, channelMap, enr, cyc, men>>

SelNext == Select

SelSpec == SelInit /\ [][SelNext]_vars

\* ------------------------------------- specification: the mentions
\* every bot, one mention with any text of at most MaxText pieces
MenInit ==
  /\ variant \in Variants
  /\ env = [CHANNEL_ID |-> Null]
  /\ messages = << >>
  /\ selDone = FALSE
  /\ top = 0
  /\ channelMap = << >>
  /\ enr = [h \in Handlers |-> EnrIdle]
  /\ cyc = [c \in Cycles |-> CycIdle]
  /\ men = MenIdle
  /\ job = JobIdle

MenNext ==
  \/ men.pc = "idle" /\ \E e \in Events(variant) : MentionStart(e)
  \/ \E ok \in BOOLEAN : MentionCallSettled(ok)
  \/ \E r \in SdkResults : MentionGenerated(r)

MenSpec == MenInit /\ [][MenNext]_vars

\* ------------------------------- specification: two firings of the job
\* the firings of the schedule: node-cron calls the callback at every
\* tick, whether or not an earlier call has returned
Runs == {1, 2}

\* the channel the h-th enrollment command names
CommandChannel(h) == IF h % 2 = 1 THEN "C1" ELSE "C2"

\* the registry after the first n enrollment commands, all for team T1
RECURSIVE RegistryAfter(_, _)
RegistryAfter(v, n) ==
  IF n = 0 THEN << >>
  ELSE IF v = "slack"
       THEN setchannel(RegistryAfter(v, n - 1), "T1", CommandChannel(n))
       ELSE setmemechannel(RegistryAfter(v, n - 1), "T1", CommandChannel(n))

\* every bot, its enrollment commands handled (the bots with a registry),
\* CHANNEL_ID set or not (the one-channel bot), the schedule about to fire
CronInit ==
  /\ variant \in Variants
  /\ env \in (IF variant = "discord" THEN EnvValues ELSE {[CHANNEL_ID |-> Null]})
  /\ messages = << >>
  /\ selDone = FALSE
  /\ top = 0
  /\ channelMap = (IF variant = "discord" THEN << >> ELSE RegistryAfter(variant, MaxEnrolls))
  /\ enr = [h \in Handlers |->
              IF variant = "discord" THEN EnrIdle
              ELSE [pc |-> "done", team |-> "T1", channel |-> CommandChannel(h),
                    admin |-> TRUE, dup |-> h > 2,
                    reply |-> IF variant = "slack" THEN "registered" ELSE "added"]]
  /\ cyc = [c \in Runs |-> CycIdle]
  /\ men = MenIdle
  /\ job = JobIdle

CronNext ==
  \/ \E c \in Runs : CronFire(c)
  \/ \E c \in Runs, ok \in BOOLEAN : ChannelFetched(c, ok)
  \/ \E c \in Runs : HistoryFailed(c)
  \/ \E c \in Runs, hist \in FetchedHistories : HistoryFetched(c, hist)
  \/ \E c \in Runs, r \in SdkResults : Generated(c, r)
  \/ \E c \in Runs, ok \in BOOLEAN : Posted(c, ok)
  \/ \E c \in Runs : AutoFire(c)
  \/ \E c \in Runs, ok \in BOOLEAN : AutoChannelFetched(c, ok)
  \/ \E c \in Runs : AutoMessagesFailed(c)
  \/ \E c \in Runs, hist \in FetchedHistories : AutoMessagesFetched(c, hist)
  \/ \E c \in Runs, r \in SdkResults : AutoGenerated(c, r)
  \/ \E c \in Runs, ok \in BOOLEAN : AutoSent(c, ok)

CronSpec == CronInit /\ [][CronNext]_vars

\* ------------------------------ specification: the job and long texts
\* every bot, its enrollment commands handled, one firing of the schedule,
\* the selected message's text of up to 60 characters
TextInit ==
  /\ variant \in Variants
  /\ env = [CHANNEL_ID |-> IF variant = "discord" THEN "C1" ELSE Null]
  /\ messages = << >>
  /\ selDone = FALSE
  /\ top = 0
  /\ channelMap = (IF variant = "discord" THEN << >> ELSE RegistryAfter(variant, MaxEnrolls))
  /\ enr = [h \in Handlers |->
              IF variant = "discord" THEN EnrIdle
              ELSE [pc |-> "done", team |-> "T1", channel |-> CommandChannel(h),
                    admin |-> TRUE, dup |-> h > 2,
                    reply |-> IF variant = "slack" THEN "registered" ELSE "added"]]
  /\ cyc = [c \in Cycles |-> CycIdle]
  /\ men = MenIdle
  /\ job = JobIdle

TextHistories == LongHistories \cup {<< >>}

TextNext ==
  \/ \E c \in Cycles : CronFire(c)
  \/ \E c \in Cycles, ok \in BOOLEAN : ChannelFetched(c, ok)
  \/ \E c \in Cycles : HistoryFailed(c)
  \/ \E c \in Cycles, hist \in TextHistories : HistoryFetched(c, hist)
  \/ \E c \in Cycles, r \in SdkResults : Generated(c, r)
  \/ \E c \in Cycles, ok \in BOOLEAN : Posted(c, ok)
  \/ \E c \in Cycles : AutoFire(c)
  \/ \E c \in Cycles, ok \in BOOLEAN : AutoChannelFetched(c, ok)
  \/ \E c \in Cycles : AutoMessagesFailed(c)
  \/ \E c \in Cycles, hist \in TextHistories : AutoMessagesFetched(c, hist)
  \/ \E c \in Cycles, r \in SdkResults : AutoGenerated(c, r)
  \/ \E c \in Cycles, ok \in BOOLEAN : AutoSent(c, ok)

TextSpec == TextInit /\ [][TextNext]_vars

\* ------------------------------------ specification: the polling
\* one call of the generateMeme of part_002
PollInit ==
  /\ variant = "discord"
  /\ env = [CHANNEL_ID |-> Null]
  /\ messages = << >>
  /\ selDone = FALSE
  /\ top = 0
  /\ channelMap = << >>
  /\ enr = [h \in Handlers |-> EnrIdle]
  /\ cyc = [c \in Cycles |-> CycIdle]
  /\ men = MenIdle
  /\ job = JobIdle

PollNext ==
  \/ JobSubmit
  \/ \E r \in JobResults : JobCreated(r)
  \/ \E r \in JobResults : JobPolled(r)
  \/ JobSlept

PollSpec == PollInit /\ [][PollNext]_vars

\* every SDK call settles and every timer fires
PollLive == PollSpec /\ WF_vars(PollNext)

\* ------------------------------------------------ claims: selectors
NonBots == {i \in 1..Len(messages) : ~messages[i].isFromBot}

Min(S) == CHOOSE x \in S : \A y \in S : x <= y

\* what each selector scans and ranks by
Candidates ==
  IF variant = "slack" THEN 1..Len(messages) ELSE NonBots
rankKey(msg) ==
  IF variant = "slack" THEN score10(msg) ELSE 10 * totalReactions(msg)

AllQuiet ==
  /\ Len(messages) >= 1
  /\ \A i \in 1..Len(messages) :
       /\ ~messages[i].isFromBot
       /\ SumCounts(messages[i].reactions) = 0
       /\ messages[i].hasText /\ messages[i].text = << >>

\* C1 (as claimed): the selector never returns a bot-authored message, and
\* returns null when every message of the sequence is bot-authored.
C1_NeverSelectsBot ==
  selDone =>
    /\ top # 0 => ~messages[top].isFromBot
    /\ NonBots = {} => top = 0

\* C2 (as claimed): the returned message has the maximum of
\* reactionTotal + textLength/10 among the non-bot messages.
C2_MaxSpecScore ==
  (selDone /\ NonBots # {} /\ top # 0) =>
    \A i \in NonBots : score10(messages[i]) <= score10(messages[top])

\* C2 (amended): with at least one non-bot message, the Discord selectors
\* return a non-bot message whose reaction total is maximal among the
\* non-bot messages (text length is not counted); the Slack selector, when
\* it returns a message, returns one whose reactionTotal + textLength/10 is
\* maximal among all the messages of the sequence.
C2_MaxOwnRanking ==
  (selDone /\ NonBots # {}) =>
    /\ variant # "slack" => top \in NonBots
    /\ top # 0 =>
         \A i \in Candidates : rankKey(messages[i]) <= rankKey(messages[top])

C2_Witness ==
  /\ selDone /\ variant = "discordMulti" /\ top # 0
  /\ \E i \in NonBots :
       /\ score10(messages[i]) > score10(messages[top])
       /\ totalReactions(messages[i]) < totalReactions(messages[top])

\* C3 (as claimed): one or more non-bot messages, every reaction total 0
\* and every text empty: the selector returns the first message.
C3_QuietReturnsFirst == (selDone /\ AllQuiet) => top = 1

\* C3 (amended): on such a sequence the Discord selectors return the first
\* message and the Slack selector returns null.
C3_QuietFirstOrNull ==
  (selDone /\ AllQuiet) => top = (IF variant = "slack" THEN 0 ELSE 1)

C3_Witness ==
  /\ selDone /\ AllQuiet /\ Len(messages) >= 2
  /\ variant = "discord" /\ top = 1

\* C4 (as claimed): when two or more candidates share the maximum score,
\* the selector returns the earliest of them.
C4_TieEarliestSpecScore ==
  selDone =>
    LET ties == {i \in NonBots :
                   \A j \in NonBots : score10(messages[j]) <= score10(messages[i])}
    IN  Cardinality(ties) >= 2 => top = Min(ties)

\* C4 (amended): ranking each selector by its own key (Slack:
\* reactionTotal + textLength/10 over all messages; Discord: reaction total
\* over the non-bot messages), the selector returns the earliest message
\* holding the maximum, except that the Slack selector returns null when
\* that maximum is 0.
C4_TieEarliestOwnRanking ==
  selDone =>
    LET ties == {i \in Candidates :
                   \A j \in Candidates : rankKey(messages[j]) <= rankKey(messages[i])}
    IN  ties # {} =>
          top = (IF variant = "slack" /\ rankKey(messages[Min(ties)]) = 0
                 THEN 0 ELSE Min(ties))

C4_Witness ==
  /\ selDone /\ top = 1 /\ Len(messages) >= 2
  /\ 2 \in Candidates
  /\ rankKey(messages[2]) = rankKey(messages[1])
  /\ rankKey(messages[1]) > 0
  /\ messages[2] # messages[1]

\* C5: two non-bot messages A and B of identical text length, A with
\* strictly more total reactions than B: the selector applied to exactly A
\* and B, in either order, returns A.
C5_MoreReactionsWins ==
  (selDone /\ Len(messages) = 2 /\ NonBots = {1, 2}) =>
    \A a \in {1, 2} :
      LET b == 3 - a
      IN  (/\ lengthScore10(messages[a]) = lengthScore10(messages[b])
           /\ SumCounts(messages[a].reactions) > SumCounts(messages[b].reactions))
          => top = a

C5_Witness ==
  /\ selDone /\ Len(messages) = 2 /\ NonBots = {1, 2}
  /\ lengthScore10(messages[1]) = lengthScore10(messages[2])
  /\ SumCounts(messages[2].reactions) > SumCounts(messages[1].reactions)
  /\ SumCounts(messages[1].reactions) > 0
  /\ top = 2

\* --------------------------------------------- claims: the registry
\* C6: in every reachable state each channelId appears at most once in the
\* channel list of an ownerId (and each ownerId has one list).
C6_NoDuplicateChannel ==
  \A i \in 1..Len(channelMap) :
    /\ \A k \in 1..Len(channelMap) : channelMap[k].key = channelMap[i].key => k = i
    /\ \A a, b \in 1..Len(channelMap[i].val) :
         channelMap[i].val[a] = channelMap[i].val[b] => a = b

C6_Witness ==
  \E h \in Handlers :
    /\ enr[h].pc = "done" /\ enr[h].dup /\ enr[h].admin
    /\ Len(getOrEmpty(channelMap, enr[h].team)) = 1

\* C7: enrolling an (ownerId, channelId) pair that is already present leaves
\* the whole registry as it was, the order of its elements included.
C7_ReenrollIsNoOp ==
  [][\A h \in Handlers :
       (/\ enr[h].pc = "idle" /\ enr'[h].pc = "reply"
        /\ Enrolled(channelMap, enr'[h].team, enr'[h].channel))
       => channelMap' = channelMap]_vars

C7_Witness ==
  \E h \in Handlers :
    /\ enr[h].pc = "reply" /\ enr[h].dup /\ enr[h].admin
    /\ Enrolled(channelMap, enr[h].team, enr[h].channel)

\* C8: two enrollment commands for one ownerId with different channelIds,
\* their handlers interleaved as the event loop allows: both channelIds are
\* in that owner's list from the moment both handlers have run their update,
\* so once both have finished.
C8_NoLostEnrollment ==
  \A h1, h2 \in Handlers :
    (/\ h1 # h2
     /\ enr[h1].pc \in {"reply", "done"} /\ enr[h2].pc \in {"reply", "done"}
     /\ enr[h1].admin /\ enr[h2].admin
     /\ enr[h1].team = enr[h2].team
     /\ enr[h1].channel # enr[h2].channel)
    => /\ Enrolled(channelMap, enr[h1].team, enr[h1].channel)
       /\ Enrolled(channelMap, enr[h2].team, enr[h2].channel)

\* both handlers suspended at their reply at the same time
C8_Witness ==
  \E h1, h2 \in Handlers :
    /\ enr[h1].pc = "reply" /\ enr[h2].pc = "reply"
    /\ enr[h1].admin /\ enr[h2].admin
    /\ enr[h1].team = enr[h2].team
    /\ enr[h1].channel # enr[h2].channel
    /\ Len(getOrEmpty(channelMap, enr[h1].team)) = 2

\* C9: no step of a mention handler, an enrollment handler or the scheduled
\* job removes a channelId from the registry.
C9_RegistryOnlyGrows ==
  [][\A t \in Teams, ch \in Channels :
       Enrolled(channelMap, t, ch) => Enrolled(channelMap', t, ch)]_vars

C9_Witness ==
  /\ Len(Dests(channelMap)) >= 2
  /\ \A h \in Handlers : enr[h].pc = "done"
  /\ cyc[1].pc = "done" /\ Len(cyc[1].fetched) >= 1
  /\ men.pc = "done"

\* ------------------------------------------ claims: the scheduled job
\* C10: within one run of the job a failure of the fetch, generate or post
\* step for one destination does not stop the run: when the run ends, every
\* destination that was in the registry when it started has been fetched.
C10_FailureDoesNotStopCycle ==
  \A c \in Cycles :
    cyc[c].pc = "done" =>
      \A k \in 1..Len(cyc[c].atStart) :
        \E j \in 1..Len(cyc[c].fetched) : cyc[c].fetched[j] = cyc[c].atStart[k]

\* a run whose first destination failed and whose second was still fetched
C10_Witness ==
  \E c \in Cycles :
    /\ cyc[c].pc = "done"
    /\ Len(cyc[c].atStart) >= 2
    /\ cyc[c].errAt = 1
    /\ Len(cyc[c].fetched) >= 2

\* C11 (as claimed): in a run of the scheduled job the post is requested for
\* a destination only if the generation service returned status complete
\* with a non-empty result URL; on any other response (status error, no
\* URL, a rejected call) no post is requested for that destination and the
\* run goes on to the next destination or ends.
C11_PostOnlyIfComplete ==
  [][\A c \in DOMAIN cyc, r \in SdkResults :
       ((Generated(c, r) \/ AutoGenerated(c, r)) /\ ~Complete(r))
       => cyc'[c].pc \in {"channel", "fetch", "done"}]_vars

\* C12 (as claimed): in a run of the scheduled job, whenever a message was
\* selected for a destination and the generation service returns status
\* complete with a non-empty result URL, the post is requested for that
\* destination with that URL, whatever the selected message (one with
\* reactions and no text included).
C12_CompleteIsPosted ==
  [][\A c \in DOMAIN cyc, r \in SdkResults :
       (/\ Generated(c, r) \/ AutoGenerated(c, r)
        /\ cyc[c].engaging # << >>
        /\ Complete(r))
       => (/\ cyc'[c].pc = "post"
           /\ cyc'[c].channel = cyc[c].channel
           /\ cyc'[c].memeUrl = r.downloads[1])]_vars

\* the messages of a destination arrive in run c and the selector returns
\* null for them
NoCandidate(c, hist) ==
  /\ HistoryFetched(c, hist) \/ AutoMessagesFetched(c, hist)
  /\ selectMostEngaging(variant, hist) = 0

\* C13 (as claimed): in a run of the scheduled job, when the selector returns
\* no message for a destination, the destination is skipped: the generation
\* service is not called and nothing is posted to it in that run.
C13_NoCandidateSkips ==
  [][\A c \in DOMAIN cyc, hist \in FetchedHistories :
       NoCandidate(c, hist) => cyc'[c].pc \in {"channel", "fetch", "done"}]_vars

\* C13 (amended): when the selector returns no message, the bots that keep a
\* registry (Slack, multi-channel Discord) skip the destination: no
\* generation job, no post.  The one-channel Discord bot submits one
\* generation job with its generic prompt instead, and requests the post
\* exactly when generateContent returns a URL for it.
C13_NoCandidateSkipsOrGeneric ==
  [][\A c \in DOMAIN cyc :
       /\ \A hist \in FetchedHistories :
            NoCandidate(c, hist) =>
              IF variant = "discord"
              THEN /\ cyc'[c].pc = "generate" /\ cyc'[c].engaging = << >>
                   /\ cyc'[c].gens = cyc[c].gens + 1
              ELSE cyc'[c].pc \in {"channel", "fetch", "done"}
       /\ \A r \in SdkResults :
            (AutoGenerated(c, r) /\ cyc[c].engaging = << >>) =>
              IF r.status = "complete" /\ Len(r.downloads) > 0
              THEN cyc'[c].pc = "post" /\ cyc'[c].memeUrl = r.downloads[1]
              ELSE cyc'[c].pc = "done"]_vars

\* the one-channel bot posting for its generic prompt after a fetch that
\* succeeded and a selector that returned null
C13_Witness ==
  \E c \in DOMAIN cyc :
    /\ variant = "discord"
    /\ cyc[c].pc = "post" /\ cyc[c].engaging = << >>
    /\ cyc[c].errAt = 0 /\ cyc[c].memeUrl = "u1"

\* C14 (as claimed): in a run of the scheduled job, when fetching the recent
\* messages of a destination fails, no generation job is submitted and
\* nothing is posted for that destination in that run, and the run goes on
\* to the next destination or ends.
C14_FetchFailureNoOutput ==
  [][\A c \in DOMAIN cyc :
       (HistoryFailed(c) \/ AutoMessagesFailed(c))
       => cyc'[c].pc \in {"channel", "fetch", "done"}]_vars

\* ---------------------------------------------- claims: the mentions
\* the text of e is a mention with nothing to make a meme of.  Slack:
\* mention tokens and white space only.  Discord: a user's message that
\* mentions the bot and reads, white space aside, "create meme" or
\* "@bot create meme", the mention being a word of its own.
EmptyCommand(e) ==
  IF variant = "slack"
  THEN \A i \in 1..Len(e.text) : e.text[i] \in {"<@U1>", Sp}
  ELSE /\ ~e.bot /\ e.mentioned
       /\ \E k \in 1..(Len(e.text) - 2) :
            /\ SubSeq(e.text, k, k + 2) = BOT_COMMAND_PREFIX
            /\ \A i \in (k + 3)..Len(e.text) : e.text[i] = Sp
            /\ \A i \in 1..(k - 1) : e.text[i] \in {"@bot", Sp}
            /\ Cardinality({i \in 1..(k - 1) : e.text[i] = "@bot"}) <= 1
            /\ (k > 1 /\ \E i \in 1..(k - 1) : e.text[i] = "@bot") => e.text[k - 1] = Sp

IsPrefix(s, t) == Len(s) <= Len(t) /\ SubSeq(t, 1, Len(s)) = s

\* C16 (as claimed): for a mention with a non-empty prompt the calls come
\* in this order: the "generating" message is posted, then the generation
\* service is called; with a URL the "generating" message is deleted and
\* then the image is posted (the message is never updated); without one
\* the "generating" message is updated in place, is not deleted, and no
\* image is posted.
C16_PlaceholderDeletedOrUpdated ==
  (men.pc # "idle" /\ men.prompt # << >>) =>
    /\ men.calls # << >>
    /\ IsPrefix(men.calls,
                IF truthy(men.memeUrl)
                THEN <<"placeholder", "generate", "delete", "final">>
                ELSE <<"placeholder", "generate", "update">>)

\* C16 (amended): for a mention with a non-empty prompt the "generating"
\* message is posted, then the generation service is called.  Slack: with
\* a URL the "generating" message is deleted and then the image is posted,
\* without one the message is updated in place, not deleted, and no image
\* is posted.  Discord: the "generating" reply is neither deleted nor
\* updated; with a URL the image is sent as a new reply, without one the
\* failure notice is sent as a new reply and no image is posted.
C16_PlaceholderThenOutcome ==
  (men.pc # "idle" /\ men.prompt # << >>) =>
    /\ men.calls # << >>
    /\ IsPrefix(men.calls,
                IF variant = "slack"
                THEN (IF truthy(men.memeUrl)
                      THEN <<"placeholder", "generate", "delete", "final">>
                      ELSE <<"placeholder", "generate", "update">>)
                ELSE (IF truthy(men.memeUrl)
                      THEN <<"placeholder", "generate", "final">>
                      ELSE <<"placeholder", "generate", "notice">>))

\* Slack has deleted the "generating" message and posted the image
C16_Witness ==
  /\ variant = "slack" /\ men.pc = "done" /\ men.prompt = <<"w">>
  /\ men.memeUrl = "u1"
  /\ men.calls = <<"placeholder", "generate", "delete", "final">>

\* C18 (as claimed): in the mention handler a failure of any chat call (the
\* rejection, the "generating" message, its deletion, its update, the
\* message with the image, the failure notice) is caught inside the
\* handler: the error never leaves the handler.
C18_ChatFailureCaught == men.pc # "failed"

\* --------------------------------------------- claims: no retries
\* C19: nothing is retried.  In one run of the scheduled job each
\* destination has its messages fetched at most once, at most one
\* generation job submitted and at most one post requested; one mention
\* submits at most one generation job; whatever the outcomes of the calls.
C19_NothingRetried ==
  /\ \A c \in Cycles :
       /\ cyc[c].gens <= 1 /\ cyc[c].posts <= 1
       /\ \A i, j \in 1..Len(cyc[c].fetched) :
            cyc[c].fetched[i] = cyc[c].fetched[j] => i = j
  /\ Cardinality({i \in 1..Len(men.calls) : men.calls[i] = "generate"}) <= 1

\* a run whose first destination failed requesting the post for its second
\* one, and a mention that failed after its generation job
C19_Witness ==
  /\ \E c \in Cycles :
       /\ cyc[c].errAt = 1 /\ Len(cyc[c].fetched) = 2
       /\ cyc[c].pc = "post" /\ cyc[c].gens = 1 /\ cyc[c].posts = 1
  /\ men.pc = "failed" /\ Len(men.calls) = 3 /\ men.calls[2] = "generate"

\* ------------------------------------------- claims: the schedule
\* run c is suspended on a call (channel lookup, fetch, generation, post)
\* for a destination
Busy(c) == cyc[c].pc \in {"channel", "fetch", "generate", "post"}

\* C17 (as claimed): two runs of the scheduled job never process the same
\* destination at the same time: a firing that comes while an earlier run
\* is suspended for a destination does not start on that destination.
C17_NoOverlap ==
  \A c1, c2 \in DOMAIN cyc :
    (c1 # c2 /\ Busy(c1) /\ Busy(c2)) =>
      cyc[c1].fetched[Len(cyc[c1].fetched)] # cyc[c2].fetched[Len(cyc[c2].fetched)]

\* C20 (as claimed): a missing CHANNEL_ID is reported once, at startup, and
\* not at every firing of the schedule: over any number of firings the
\* error is reported at most once.
C20_ConfigErrorOnce ==
  Cardinality({c \in DOMAIN cyc : cyc[c].reported}) <= 1


\* -------------------------------------------------- claims: the polling
\* C21: with every SDK call settling and every timer firing, a call of the
\* polling generateMeme never asks the job-status endpoint more than 20
\* times and eventually returns, a URL or null.
C21_PollingTerminates ==
  /\ [](job.polls <= 20)
  /\ <>(job.pc = "returned" /\ job.result \in {Null, "u1", "u2"})

\* the call returned null after it had used all 20 attempts
C21_Witness ==
  job.pc = "returned" /\ job.polls = 20 /\ job.result = Null

\* the job is complete and has a download
CompleteJob(r) ==
  ~r.threw /\ r.status = "complete" /\ Len(r.downloads) > 0

\* C22: whenever create or get shows the job complete with a download,
\* the call returns the job's first download URL.
C22_CompleteIsReturned ==
  [][\A r \in JobResults :
       ((JobCreated(r) \/ JobPolled(r)) /\ CompleteJob(r))
         => (job'.pc = "returned" /\ job'.result = r.downloads[1])]_vars

\* --------------------------------------------- claims: the long texts
\* t occurs in s as a run of consecutive elements
Contains(s, t) ==
  \E k \in 0..(Len(s) - Len(t)) : SubSeq(s, k + 1, k + Len(t)) = t

\* C23: in a scheduled run, while a generation or a post for a selected
\* message with a text is under way, the prompt submitted holds the
\* message's whole text; the text of the post holds the first 50
\* characters of it and, of a longer text, not the 51st.
C23_PromptWholePostCut ==
  \A c \in DOMAIN cyc :
    LET cy == cyc[c] IN
    (cy.pc \in {"generate", "post"} /\ cy.engaging # << >> /\ cy.engaging[1].hasText) =>
      LET t == cy.engaging[1].text IN
      /\ Contains(cy.prompt, t)
      /\ cy.pc = "post" =>
           /\ Contains(cy.text, SubSeq(t, 1, IF Len(t) < 50 THEN Len(t) ELSE 50))
           /\ Len(t) > 50 => ~Contains(cy.text, SubSeq(t, 1, 51))

\* a post for a message of 60 characters is under way
C23_Witness ==
  \E c \in DOMAIN cyc :
    /\ cyc[c].pc = "post"
    /\ cyc[c].engaging # << >>
    /\ Len(cyc[c].engaging[1].text) = 60
    /\ Contains(cyc[c].prompt, cyc[c].engaging[1].text)
    /\ Len(cyc[c].text) = 52

\* ------------------------------------------- claims: the permissions
\* C24: the step of the /setmemechannel handler for a member without the
\* Administrator permission leaves the whole registry as it was and
\* answers "Only admins can set meme channels.".
C24_NonAdminChangesNothing ==
  [][\A h \in Handlers :
       (enr[h].pc = "idle" /\ enr'[h].pc = "reply" /\ ~enr'[h].admin)
         => (channelMap' = channelMap /\ enr'[h].reply = "only admins")]_vars

\* a member without Administrator named a channel that is not enrolled,
\* while the registry already held another
C24_Witness ==
  \E h \in Handlers :
    /\ variant = "discordMulti"
    /\ enr[h].pc = "reply" /\ ~enr[h].admin /\ enr[h].reply = "only admins"
    /\ channelMap # << >>
    /\ ~Enrolled(channelMap, enr[h].team, enr[h].channel)

\* -------------------------------- claims: enrollment during a run
\* the number of times the run took up destination d
Times(cy, d) == Cardinality({j \in 1..Len(cy.fetched) : cy.fetched[j] = d})

\* C25: no run of the scheduled job takes up a destination twice, and when
\* a run has ended it has taken up every destination that was in the
\* registry when it started exactly once, whatever enrollment commands
\* were handled while it was suspended.
C25_EachDestinationOnce ==
  \A c \in DOMAIN cyc :
    /\ \A j \in 1..Len(cyc[c].fetched) : Times(cyc[c], cyc[c].fetched[j]) = 1
    /\ cyc[c].pc = "done" =>
         \A k \in 1..Len(cyc[c].atStart) : Times(cyc[c], cyc[c].atStart[k]) = 1

\* a run that ended after it took up a destination enrolled while it was
\* suspended, besides the one it started with
C25_Witness ==
  \E c \in DOMAIN cyc :
    /\ variant # "discord"
    /\ cyc[c].pc = "done"
    /\ Len(cyc[c].atStart) = 1
    /\ Len(cyc[c].fetched) = 2
    /\ Times(cyc[c], cyc[c].atStart[1]) = 1

\* ------------------------------------------ claims: the bots' messages
\* C26: in the Discord bots the handler of a message written by a bot has
\* returned without a chat call and without a generation call, whatever
\* the message says.
C26_BotMessagesIgnored ==
  (variant # "slack" /\ men.pc # "idle" /\ men.event.bot) =>
    (men.pc = "done" /\ men.calls = << >> /\ men.memeUrl = Null)

\* a bot wrote a complete command that mentions the bot
C26_Witness ==
  /\ variant # "slack"
  /\ men.pc = "done"
  /\ men.event.bot /\ men.event.mentioned
  /\ men.event.text = <<"@bot", Sp>> \o BOT_COMMAND_PREFIX \o <<Sp, "w">>
  /\ men.calls = << >>

=============================================================================
